---- MODULE Spec2Model ----
(***************************************************************************)
(* Model of the browser video creator: the VideoCreator component (render  *)
(* orchestrator generateVideo, reset, onSubmit and the two buttons), the   *)
(* useFFmpeg loader hook, and the encoder's virtual file system as seen    *)
(* through deleteFile / writeFile / exec / readFile.                       *)
(*                                                                         *)
(* Every await of generateVideo is a suspension point and therefore a      *)
(* separate action; the synchronous code between two awaits is one atomic  *)
(* step.  File names are sequences of one-character strings so that the    *)
(* string operations of the source (padStart, slice, lastIndexOf) are      *)
(* computed rather than assumed.                                           *)
(***************************************************************************)
EXTENDS Integers, Sequences, FiniteSets, TLC

(***************************************************************************)
(* Bounds of the exploration.                                              *)
(***************************************************************************)
\* attempts are explored only for configurations with at most this many frames
MaxFrames == 3
\* object URLs created over a whole run
MaxUrls == 3
\* value the attempt counter may reach before a reset
MaxRetry == 2
\* generateVideo invocations that can be suspended at the same time
MaxInFlight == 2

Slots == 1..MaxInFlight

(***************************************************************************)
(* Optional values (T | null).                                             *)
(***************************************************************************)
Null == <<>>
Some(v) == <<v>>
Val(o) == o[1]

(***************************************************************************)
(* Strings as character sequences.                                         *)
(***************************************************************************)
Digit(d) == CASE d = 0 -> "0" [] d = 1 -> "1" [] d = 2 -> "2" [] d = 3 -> "3"
              [] d = 4 -> "4" [] d = 5 -> "5" [] d = 6 -> "6" [] d = 7 -> "7"
              [] d = 8 -> "8" [] d = 9 -> "9"

RECURSIVE String(_)
\* String(i) for a non-negative integer i: its decimal digits
String(n) == IF n < 10 THEN <<Digit(n)>> ELSE String(n \div 10) \o <<Digit(n % 10)>>

\* mutant of padStart: nothing is prepended
padStartNone(s, len, fill) == s

RECURSIVE padStart(_, _, _)
\* s.padStart(len, fill): fill is prepended until the length is reached;
\* a string already that long is returned as it is
padStart(s, len, fill) == IF Len(s) >= len THEN s ELSE padStart(<<fill>> \o s, len, fill)

padLength == 5

framePrefix == <<"f", "r", "a", "m", "e", "_">>
pngSuffix == <<".", "p", "n", "g">>

\* the name deleted in the cleanup loop:
\* `frame_${String(i).padStart(padLength, '0')}.png`
deleteFrameName(i) == framePrefix \o padStart(String(i), padLength, "0") \o pngSuffix

\* fileName of onFrame: `frame_${String(index).padStart(padLength, '0')}.png`
frameFileName(index) == framePrefix \o padStart(String(index), padLength, "0") \o pngSuffix

outputFileName == <<"o", "u", "t", "p", "u", "t", ".", "m", "p", "4">>

audioPrefix == <<"a", "u", "d", "i", "o", "_", "i", "n", "p", "u", "t">>
mp3Suffix == <<".", "m", "p", "3">>

\* name.includes('.')
includesDot(name) == \E k \in 1..Len(name) : name[k] = "."

\* mutant of lastIndexOfDot: name.indexOf('.')
indexOfDot(name) == CHOOSE k \in 1..Len(name) :
                      /\ name[k] = "."
                      /\ \A j \in 1..(k - 1) : name[j] # "."

\* name.lastIndexOf('.') as a 1-based position (the name includes a dot)
lastIndexOfDot(name) == CHOOSE k \in 1..Len(name) :
                          /\ name[k] = "."
                          /\ \A j \in (k + 1)..Len(name) : name[j] # "."

\* audioInputName of generateVideo: null without an audio file, otherwise
\* 'audio_input' followed by the original extension or '.mp3'
audioInputNameOf(file) ==
  IF file = Null THEN Null
  ELSE Some(audioPrefix \o
            (IF includesDot(Val(file))
               THEN SubSeq(Val(file), lastIndexOfDot(Val(file)), Len(Val(file)))
               ELSE mp3Suffix))

(***************************************************************************)
(* Configuration.  duration is kept in sixtieths of a second, so that a    *)
(* fractional duration is a value of the model and Math.floor rounds the   *)
(* product duration * fps: the default 6 s is 360.                         *)
(***************************************************************************)
defaultConfig == [duration |-> 360, fps |-> 30]

\* values the duration input is given (sixtieths of a second): products
\* duration * fps of -0.5, 0.5 and 3.5 frames
DurationInputs == {-1, 1, 7}

\* mutant of totalFramesOf: Math.ceil in place of Math.floor
totalFramesCeil(c) == -((-(c.duration * c.fps)) \div 60)

\* Math.floor(config.duration * config.fps)
totalFramesOf(c) == (c.duration * c.fps) \div 60

\* files the audio input is given: "song.WAV"
AudioInputs == { <<"s", "o", "n", "g", ".", "W", "A", "V">> }

\* values an awaited call can reject with: an Error with a message, a value
\* that is not an Error
Thrown == { [isError |-> TRUE, message |-> "encoder error"],
            [isError |-> FALSE, message |-> "not an Error"] }

notReadyMessage == "FFmpeg not ready yet. Please wait a second and try again."
unknownMessage == "Unknown error while rendering video."

VARIABLES
  ready,        \* useFFmpeg: state `ready`
  loading,      \* useFFmpeg: state `loading`
  ffmpegRef,    \* useFFmpeg: ffmpegRef.current is an instance (TRUE) or null
  ffmpeg,       \* the memoised `ffmpeg` of the hook's result, as seen by VideoCreator
  loadPc,       \* position of the one load() call that got past its guards
  config,       \* state `config` (duration, fps)
  audioFile,    \* state `audioFile`: Null or Some(file name)
  previewUrl,   \* state `previewUrl`: Null or Some(object URL id)
  status,       \* state `status`
  progress,     \* state `progress`: Null or Some(integer)
  isGenerating, \* state `isGenerating`
  error,        \* state `error`: Null or Some(message)
  retryCount,   \* retryCount.current
  att,          \* the suspended generateVideo invocations, one per slot
  fs,           \* names of the files in the encoder's virtual file system
  urlsCreated,  \* number of URL.createObjectURL calls so far (ids 1..urlsCreated)
  revokes,      \* per object URL id, the number of URL.revokeObjectURL calls
  last,         \* the last button click (ignored when the button was disabled) or
                \* step of an attempt, with the value thrown when the step was a rejection
  naming        \* a file-name expression of generateVideo evaluated on its own:
                \* which one, its argument and, once evaluated, its value

vars == <<ready, loading, ffmpegRef, ffmpeg, loadPc, config, audioFile, previewUrl,
          status, progress, isGenerating, error, retryCount, att, fs, urlsCreated,
          revokes, last, naming>>

hookVars == <<ready, loading, ffmpegRef, ffmpeg, loadPc>>
formVars == <<config, audioFile>>
jobVars == <<previewUrl, status, progress, isGenerating, error, retryCount>>
urlVars == <<urlsCreated, revokes>>

\* a value of `last`: ev is "none", "submit", "submitIgnored", "reset",
\* "resetIgnored", "step" or "rejected"; a rejection also has the position of
\* the attempt (at) and the value thrown
Event(ev) == [ev |-> ev, at |-> "none", thrown |-> Null]

idleAttempt == [pc |-> "idle", fps |-> 0, totalFrames |-> 0, audioFile |-> Null,
                audioInputName |-> Null, i |-> 0, statusLog |-> <<>>,
                calls |-> <<>>, command |-> <<>>, retry0 |-> 0, url0 |-> Null]

\* positions at which a generateVideo invocation is suspended on an await
InFlightPcs == {"del_output", "del_frame", "del_audio", "frames", "fetch", "write",
                "audio_fetch", "audio_write", "exec", "read"}

InFlight == {a \in Slots : att[a].pc \in InFlightPcs}

\* no file-name expression is evaluated on its own
noNaming == [of |-> "none", arg |-> <<>>, out |-> <<>>]

\* the component after its first render
mounted ==
  /\ ready = FALSE
  /\ loading = FALSE
  /\ ffmpegRef = FALSE
  /\ ffmpeg = FALSE
  /\ loadPc = "none"
  /\ config = defaultConfig
  /\ audioFile = Null
  /\ previewUrl = Null
  /\ status = "Idle"
  /\ progress = Null
  /\ isGenerating = FALSE
  /\ error = Null
  /\ retryCount = 0
  /\ att = [a \in Slots |-> idleAttempt]
  /\ fs = {}
  /\ urlsCreated = 0
  /\ revokes = [u \in {} |-> 0]
  /\ last = Event("none")

Init == mounted /\ naming = noNaming

(***************************************************************************)
(* useFFmpeg                                                               *)
(***************************************************************************)
\* load(), called by the mount effect: past the guards it sets loading,
\* creates the instance and awaits ffmpeg.load
load ==
  /\ ~(ready \/ loading)
  /\ loading' = TRUE
  /\ ffmpegRef' = TRUE
  /\ ffmpeg' = TRUE
  /\ loadPc' = "loading"
  /\ UNCHANGED <<naming, ready, formVars, jobVars, att, fs, urlVars, last>>

\* ffmpeg.load resolved: setReady(true); setLoading(false)
loadResolved ==
  /\ loadPc = "loading"
  /\ ready' = TRUE
  /\ loading' = FALSE
  /\ ffmpeg' = ffmpegRef
  /\ loadPc' = "loaded"
  /\ UNCHANGED <<naming, ffmpegRef, formVars, jobVars, att, fs, urlVars, last>>

\* ffmpeg.load (or toBlobURL) rejected: load() ends there, nothing is reset
loadRejected ==
  /\ loadPc = "loading"
  /\ loadPc' = "rejected"
  /\ UNCHANGED <<naming, ready, loading, ffmpegRef, ffmpeg, formVars, jobVars, att,
                 fs, urlVars, last>>

(***************************************************************************)
(* The form                                                                *)
(***************************************************************************)
\* onConfigChange('duration', value): setConfig((prev) => ({...prev, [key]: value}))
onConfigChange ==
  /\ \E v \in DurationInputs : config' = [config EXCEPT !.duration = v]
  /\ config' # config
  /\ UNCHANGED <<naming, hookVars, audioFile, jobVars, att, fs, urlVars, last>>

\* onChange of the audio file input: setAudioFile(file)
onAudioChange ==
  /\ \E f \in {Null} \cup {Some(n) : n \in AudioInputs} :
       /\ f # audioFile
       /\ audioFile' = f
  /\ UNCHANGED <<naming, hookVars, config, jobVars, att, fs, urlVars, last>>

\* mutant of submitDisabled: the button stays enabled during a render
submitDisabledUnlessRendering == ~ready \/ loading

\* disabled attribute of the submit button
submitDisabled == ~ready \/ loading \/ isGenerating

\* mutant of resetDisabled: the button is never disabled
resetNeverDisabled == FALSE

\* disabled attribute of the reset button
resetDisabled == isGenerating

(***************************************************************************)
(* reset and the reset button                                              *)
(***************************************************************************)
\* mutant of reset: the attempt counter is not cleared
resetKeepsCounter ==
  /\ config' = defaultConfig
  /\ audioFile' = Null
  /\ previewUrl' = Null
  /\ status' = "Idle"
  /\ progress' = Null
  /\ error' = Null
  /\ UNCHANGED <<retryCount, isGenerating, urlVars>>

\* reset(): every setter of the callback; previewUrl is set to null and no
\* URL.revokeObjectURL call is made
reset ==
  /\ config' = defaultConfig
  /\ audioFile' = Null
  /\ previewUrl' = Null
  /\ status' = "Idle"
  /\ progress' = Null
  /\ error' = Null
  /\ retryCount' = 0
  /\ UNCHANGED <<isGenerating, urlVars>>

\* a click on the reset button: onClick={reset} unless the button is disabled
resetClick ==
  /\ ~resetDisabled
  /\ reset
  /\ last' = Event("reset")
  /\ UNCHANGED <<naming, hookVars, att, fs>>

\* a click on the disabled reset button: no handler runs
resetIgnored ==
  /\ resetDisabled
  /\ last.ev # "resetIgnored"
  /\ last' = Event("resetIgnored")
  /\ UNCHANGED <<naming, hookVars, formVars, jobVars, att, fs, urlVars>>

(***************************************************************************)
(* generateVideo                                                           *)
(***************************************************************************)
\* mutant of roundProgress: Math.floor in place of Math.round
floorProgress(index, totalFrames) == (50 * (index + 1)) \div totalFrames

\* Math.round(((index + 1) / totalFrames) * 50), Math.round being floor(x + 1/2)
roundProgress(index, totalFrames) ==
  (100 * (index + 1) + totalFrames) \div (2 * totalFrames)

called(r, op, arg) == [r EXCEPT !.calls = Append(@, <<op, arg>>)]

\* setStatus('Rendering frames'); generateFrames({...}) is called and awaited
startRendering(r) ==
  [r EXCEPT !.pc = "frames", !.i = 0,
            !.statusLog = Append(@, "Rendering frames")]

\* after the frame deletion loop: deleteFile(audioInputName) if there is one
afterFrameCleanup(r) ==
  IF r.audioInputName # Null THEN [r EXCEPT !.pc = "del_audio"]
  ELSE startRendering(r)

\* for (let i = 0; i < totalFrames; i += 1) await ffmpeg.deleteFile(frame i)
deleteLoop(r, i) ==
  IF i < r.totalFrames THEN [r EXCEPT !.pc = "del_frame", !.i = i]
  ELSE afterFrameCleanup(r)

\* framePattern: `frame_%0${padLength}d.png`
framePattern == framePrefix \o <<"%", "0">> \o String(padLength) \o <<"d">> \o pngSuffix

\* an argument of the command: a string literal of the source, or a string
\* that is computed (kept as its characters)
Lit(s) == [lit |-> s]
Chars(s) == [chars |-> s]

\* mutant of commandOf: the audio codec arguments are pushed without an audio input
commandAlwaysAac(r) ==
  <<Lit("-y"), Lit("-framerate"), Chars(String(r.fps)), Lit("-i"), Chars(framePattern)>>
    \o (IF r.audioInputName # Null
          THEN <<Lit("-i"), Chars(Val(r.audioInputName)), Lit("-shortest")>>
          ELSE <<>>)
    \o <<Lit("-c:v"), Lit("libx264"), Lit("-profile:v"), Lit("main"),
         Lit("-pix_fmt"), Lit("yuv420p"), Lit("-preset"), Lit("medium")>>
    \o <<Lit("-c:a"), Lit("aac"), Lit("-b:a"), Lit("192k")>>
    \o <<Chars(outputFileName)>>

\* command: the encoder arguments, audioInputName being truthy when not null
commandOf(r) ==
  <<Lit("-y"), Lit("-framerate"), Chars(String(r.fps)), Lit("-i"), Chars(framePattern)>>
    \o (IF r.audioInputName # Null
          THEN <<Lit("-i"), Chars(Val(r.audioInputName)), Lit("-shortest")>>
          ELSE <<>>)
    \o <<Lit("-c:v"), Lit("libx264"), Lit("-profile:v"), Lit("main"),
         Lit("-pix_fmt"), Lit("yuv420p"), Lit("-preset"), Lit("medium")>>
    \o (IF r.audioInputName # Null
          THEN <<Lit("-c:a"), Lit("aac"), Lit("-b:a"), Lit("192k")>>
          ELSE <<>>)
    \o <<Chars(outputFileName)>>

\* setStatus('Encoding video'); the command is built; ffmpeg.exec(command)
startEncoding(r) ==
  [r EXCEPT !.pc = "exec", !.statusLog = Append(@, "Encoding video"),
            !.command = commandOf(r)]

\* mutant of afterFrames: the audio is never staged
afterFramesSkipAudio(r) == startEncoding(r)

\* mutant of afterFrames: the audio branch does not announce itself
afterFramesSilentAudio(r) ==
  IF r.audioInputName # Null /\ r.audioFile # Null
    THEN [r EXCEPT !.pc = "audio_fetch"]
    ELSE startEncoding(r)

\* after generateFrames: the audio branch if (audioInputName && audioFile)
afterFrames(r) ==
  IF r.audioInputName # Null /\ r.audioFile # Null
    THEN [r EXCEPT !.pc = "audio_fetch",
                   !.statusLog = Append(@, "Transcoding audio")]
    ELSE startEncoding(r)

\* the status after a step that takes an attempt from record r to record q: the
\* value of the setStatus call made on the way, if there is one
statusAfter(r, q) ==
  IF q.statusLog # r.statusLog THEN q.statusLog[Len(q.statusLog)] ELSE status

\* outcomes of ffmpeg.deleteFile(name) on the encoder's in-memory file system:
\* it removes the file when it is present and rejects when it is absent
deleteOutcomes(name) == {name \in fs}

\* the slot a new generateVideo invocation occupies
freeSlot == CHOOSE a \in Slots :
              /\ att[a].pc \notin InFlightPcs
              /\ \A b \in Slots : b < a => att[b].pc \in InFlightPcs

\* generateVideo() up to its first await
generateVideo ==
  IF ~ffmpeg
    THEN /\ error' = Some(notReadyMessage)
         /\ UNCHANGED <<previewUrl, status, progress, isGenerating, retryCount, att>>
    ELSE /\ isGenerating' = TRUE
         /\ error' = Null
         /\ progress' = Null
         /\ status' = "Preparing workspace"
         /\ att' = [att EXCEPT ![freeSlot] =
                      [pc |-> "del_output",
                       fps |-> config.fps,
                       totalFrames |-> totalFramesOf(config),
                       audioFile |-> audioFile,
                       audioInputName |-> audioInputNameOf(audioFile),
                       i |-> 0,
                       statusLog |-> <<"Preparing workspace">>,
                       calls |-> <<>>,
                       command |-> <<>>,
                       retry0 |-> retryCount,
                       url0 |-> previewUrl]]
         /\ UNCHANGED <<previewUrl, retryCount>>

\* onSubmit(event): nothing while the encoder is not ready or is loading
onSubmit ==
  IF ~ready \/ loading
    THEN UNCHANGED <<jobVars, att>>
    ELSE generateVideo

\* a submit of the form through its enabled submit button
submitClick ==
  /\ ~submitDisabled
  /\ \E a \in Slots : att[a].pc \notin InFlightPcs
  /\ totalFramesOf(config) <= MaxFrames
  /\ urlsCreated + Cardinality(InFlight) < MaxUrls
  /\ retryCount + Cardinality(InFlight) < MaxRetry
  /\ onSubmit
  /\ last' = Event("submit")
  /\ UNCHANGED <<naming, hookVars, formVars, fs, urlVars>>

\* a submit attempted while the submit button is disabled: no event is dispatched
submitIgnored ==
  /\ submitDisabled
  /\ last.ev # "submitIgnored"
  /\ last' = Event("submitIgnored")
  /\ UNCHANGED <<naming, hookVars, formVars, jobVars, att, fs, urlVars>>

\* await ffmpeg.deleteFile('output.mp4') settles; a rejection is swallowed
deleteOutputSettles(a) ==
  /\ att[a].pc = "del_output"
  /\ \E ok \in deleteOutcomes(outputFileName) :
       fs' = IF ok THEN fs \ {outputFileName} ELSE fs
  /\ att' = [att EXCEPT ![a] = deleteLoop(called(@, "deleteFile", outputFileName), 0)]
  /\ status' = statusAfter(att[a], att'[a])
  /\ last' = Event("step")
  /\ UNCHANGED <<naming, hookVars, formVars, previewUrl, progress, isGenerating, error,
                 retryCount, urlVars>>

\* await ffmpeg.deleteFile(frame i) settles; a rejection is swallowed
deleteFrameSettles(a) ==
  /\ att[a].pc = "del_frame"
  /\ LET name == deleteFrameName(att[a].i) IN
       /\ \E ok \in deleteOutcomes(name) : fs' = IF ok THEN fs \ {name} ELSE fs
       /\ att' = [att EXCEPT ![a] = deleteLoop(called(@, "deleteFile", name), @.i + 1)]
  /\ status' = statusAfter(att[a], att'[a])
  /\ last' = Event("step")
  /\ UNCHANGED <<naming, hookVars, formVars, previewUrl, progress, isGenerating, error,
                 retryCount, urlVars>>

\* await ffmpeg.deleteFile(audioInputName) settles; a rejection is swallowed
deleteAudioSettles(a) ==
  /\ att[a].pc = "del_audio"
  /\ LET name == Val(att[a].audioInputName) IN
       /\ \E ok \in deleteOutcomes(name) : fs' = IF ok THEN fs \ {name} ELSE fs
       /\ att' = [att EXCEPT ![a] = startRendering(called(@, "deleteFile", name))]
  /\ status' = statusAfter(att[a], att'[a])
  /\ last' = Event("step")
  /\ UNCHANGED <<naming, hookVars, formVars, previewUrl, progress, isGenerating, error,
                 retryCount, urlVars>>

(***************************************************************************)
(* generateFrames (the frame sequencer) and the onFrame callback           *)
(***************************************************************************)
\* generateFrames produced frame i and calls onFrame(i, blob), whose first
\* await is fetchFile(blob)
frameProduced(a) ==
  /\ att[a].pc = "frames"
  /\ att[a].i < att[a].totalFrames
  /\ att' = [att EXCEPT ![a] = [called(@, "frame", frameFileName(@.i)) EXCEPT
                                  !.pc = "fetch"]]
  /\ last' = Event("step")
  /\ UNCHANGED <<naming, hookVars, formVars, jobVars, fs, urlVars>>

\* onFrame: fetchFile(blob) resolved; ffmpeg.writeFile(fileName, fileData) is awaited
frameFetched(a) ==
  /\ att[a].pc = "fetch"
  /\ att' = [att EXCEPT ![a].pc = "write"]
  /\ last' = Event("step")
  /\ UNCHANGED <<naming, hookVars, formVars, jobVars, fs, urlVars>>

\* onFrame: writeFile resolved; setProgress(...); generateFrames goes on
frameWritten(a) ==
  /\ att[a].pc = "write"
  /\ LET name == frameFileName(att[a].i) IN
       /\ fs' = fs \cup {name}
       /\ last' = Event("step")
       /\ att' = [att EXCEPT ![a] =
                    [called(@, "writeFile", name) EXCEPT !.pc = "frames", !.i = @ + 1]]
  /\ progress' = Some(roundProgress(att[a].i, att[a].totalFrames))
  /\ UNCHANGED <<naming, hookVars, formVars, previewUrl, status, isGenerating, error,
                 retryCount, urlVars>>

\* generateFrames resolved after its last frame (at once when totalFrames <= 0)
framesDone(a) ==
  /\ att[a].pc = "frames"
  /\ att[a].i >= att[a].totalFrames
  /\ att' = [att EXCEPT ![a] = afterFrames(@)]
  /\ status' = statusAfter(att[a], att'[a])
  /\ last' = Event("step")
  /\ UNCHANGED <<naming, hookVars, formVars, previewUrl, progress, isGenerating, error,
                 retryCount, fs, urlVars>>

(***************************************************************************)
(* audio staging, encoding, finalizing                                     *)
(***************************************************************************)
\* fetchFile(audioFile) resolved; ffmpeg.writeFile(audioInputName, audioData) is awaited
audioFetched(a) ==
  /\ att[a].pc = "audio_fetch"
  /\ att' = [att EXCEPT ![a].pc = "audio_write"]
  /\ last' = Event("step")
  /\ UNCHANGED <<naming, hookVars, formVars, jobVars, fs, urlVars>>

\* writeFile of the audio resolved; setStatus('Encoding video'); exec is awaited
audioWritten(a) ==
  /\ att[a].pc = "audio_write"
  /\ LET name == Val(att[a].audioInputName) IN
       /\ fs' = fs \cup {name}
       /\ last' = Event("step")
       /\ att' = [att EXCEPT ![a] = startEncoding(called(@, "writeFile", name))]
  /\ status' = statusAfter(att[a], att'[a])
  /\ UNCHANGED <<naming, hookVars, formVars, previewUrl, progress, isGenerating, error,
                 retryCount, urlVars>>

\* ffmpeg.exec(command) resolved: output.mp4 exists; setProgress(90);
\* setStatus('Finalizing'); readFile('output.mp4') is awaited
execReturns(a) ==
  /\ att[a].pc = "exec"
  /\ fs' = fs \cup {outputFileName}
  /\ progress' = Some(90)
  /\ status' = "Finalizing"
  /\ att' = [att EXCEPT ![a] = [called(@, "exec", outputFileName) EXCEPT
                                  !.pc = "read",
                                  !.statusLog = Append(@, "Finalizing")]]
  /\ last' = Event("step")
  /\ UNCHANGED <<naming, hookVars, formVars, previewUrl, isGenerating, error, retryCount, urlVars>>

\* object URLs created and not revoked
Live == {u \in 1..urlsCreated : revokes[u] = 0}

\* URL.revokeObjectURL(u)
revokeObjectURL(u, rv) == [rv EXCEPT ![u] = @ + 1]

\* setPreviewUrl((oldUrl) => { if (oldUrl) URL.revokeObjectURL(oldUrl); return url; })
\* applied to the current previewUrl; rv is the revocation count with url added
publish(url, rv) ==
  /\ previewUrl' = Some(url)
  /\ revokes' = IF previewUrl # Null THEN revokeObjectURL(Val(previewUrl), rv) ELSE rv

\* mutant of finallyBlock: the flag is left as it is
finallyBlockMissing == UNCHANGED isGenerating

\* finally { setIsGenerating(false) }
finallyBlock == isGenerating' = FALSE

\* readFile('output.mp4') resolved: the blob, URL.createObjectURL, setPreviewUrl,
\* setProgress(100), setStatus('Done'), finally
readReturns(a) ==
  /\ att[a].pc = "read"
  /\ urlsCreated' = urlsCreated + 1
  /\ publish(urlsCreated + 1, revokes @@ ((urlsCreated + 1) :> 0))
  /\ progress' = Some(100)
  /\ status' = "Done"
  /\ finallyBlock
  /\ att' = [att EXCEPT ![a] = idleAttempt]
  /\ last' = Event("step")
  /\ UNCHANGED <<naming, hookVars, formVars, error, retryCount, fs>>

\* mutant of ThrowingPcs: the deleteFile calls are not wrapped in try/catch
ThrowingPcsWithCleanup ==
  {"del_output", "del_frame", "del_audio", "frames", "fetch", "write",
   "audio_fetch", "audio_write", "exec", "read"}

\* positions where a rejection is not swallowed
ThrowingPcs == {"frames", "fetch", "write", "audio_fetch", "audio_write", "exec", "read"}

\* mutant of messageOf: the message of whatever was thrown
messageOfAny(err) == err.message

\* err instanceof Error ? err.message : 'Unknown error while rendering video.'
messageOf(err) == IF err.isError THEN err.message ELSE unknownMessage

\* mutant of catchBlock: setError(message) is left out
catchBlockWithoutMessage(err) ==
  /\ retryCount' = retryCount + 1
  /\ status' = "Failed"
  /\ UNCHANGED <<error, previewUrl, progress, urlVars>>

\* mutant of catchBlock: a failure also clears the preview
catchBlockClearsPreview(err) ==
  /\ retryCount' = retryCount + 1
  /\ error' = Some(messageOf(err))
  /\ status' = "Failed"
  /\ previewUrl' = Null
  /\ UNCHANGED <<progress, urlVars>>

\* catch (err) { retryCount.current += 1; setError(message); setStatus('Failed') }
catchBlock(err) ==
  /\ retryCount' = retryCount + 1
  /\ error' = Some(messageOf(err))
  /\ status' = "Failed"
  /\ UNCHANGED <<previewUrl, progress, urlVars>>

\* the awaited call rejects: catch, then finally
rejects(a) ==
  /\ att[a].pc \in ThrowingPcs
  /\ att[a].pc = "frames" => att[a].i < att[a].totalFrames
  /\ \E err \in Thrown :
       /\ catchBlock(err)
       /\ last' = [ev |-> "rejected", at |-> att[a].pc, thrown |-> Some(err)]
  /\ finallyBlock
  /\ att' = [att EXCEPT ![a] = idleAttempt]
  /\ UNCHANGED <<naming, hookVars, formVars, fs>>

\* a step of the attempt in slot a: the call it awaits settles
attemptStep(a) ==
  \/ deleteOutputSettles(a)
  \/ deleteFrameSettles(a)
  \/ deleteAudioSettles(a)
  \/ frameProduced(a)
  \/ frameFetched(a)
  \/ frameWritten(a)
  \/ framesDone(a)
  \/ audioFetched(a)
  \/ audioWritten(a)
  \/ execReturns(a)
  \/ readReturns(a)
  \/ rejects(a)

Next ==
  \/ load
  \/ loadResolved
  \/ loadRejected
  \/ onConfigChange
  \/ onAudioChange
  \/ submitClick
  \/ submitIgnored
  \/ resetClick
  \/ resetIgnored
  \/ \E a \in Slots : attemptStep(a)

Spec == Init /\ [][Next]_vars

\* every awaited call eventually resolves or rejects
FairSpec == Spec /\ \A a \in Slots : WF_vars(attemptStep(a))

(***************************************************************************)
(* The file-name expressions of generateVideo, evaluated on their own on   *)
(* indices and file names beyond those the attempts above go through.      *)
(***************************************************************************)
\* frame indices: around every change in the number of digits up to six
IndexInputs == {0, 1, 9, 10, 11, 99, 100, 9999, 10000, 99999, 100000, 100001}

\* audio selections: none, "song.WAV", "a.b.ogg", "track", ".env", "take."
FileInputs ==
  {Null,
   Some(<<"s", "o", "n", "g", ".", "W", "A", "V">>),
   Some(<<"a", ".", "b", ".", "o", "g", "g">>),
   Some(<<"t", "r", "a", "c", "k">>),
   Some(<<".", "e", "n", "v">>),
   Some(<<"t", "a", "k", "e", ".">>)}

appVars == <<hookVars, formVars, jobVars, att, fs, urlVars, last>>

NamingInit ==
  /\ mounted
  /\ \/ \E i, j \in IndexInputs :
          i < j /\ naming = [of |-> "frames", arg |-> <<i, j>>, out |-> <<>>]
     \/ \E file \in FileInputs :
          naming = [of |-> "audio", arg |-> file, out |-> <<>>]

\* the names of two frames: for each the name deleted in the cleanup loop and
\* the name written by onFrame
nameFrames ==
  /\ naming.of = "frames"
  /\ naming.out = <<>>
  /\ naming' = [naming EXCEPT !.out =
                  << [deleted |-> deleteFrameName(naming.arg[1]),
                      written |-> frameFileName(naming.arg[1])],
                     [deleted |-> deleteFrameName(naming.arg[2]),
                      written |-> frameFileName(naming.arg[2])] >>]
  /\ UNCHANGED appVars

\* audioInputName for an audio selection
nameAudio ==
  /\ naming.of = "audio"
  /\ naming.out = <<>>
  /\ naming' = [naming EXCEPT !.out = <<audioInputNameOf(naming.arg)>>]
  /\ UNCHANGED appVars

NamingNext ==
  \/ nameFrames
  \/ nameAudio

NamingSpec == NamingInit /\ [][NamingNext]_vars

(***************************************************************************)
(* Properties                                                              *)
(***************************************************************************)
\* the attempt in slot a ends in this step
Ends(a) == att[a].pc \in InFlightPcs /\ att'[a].pc = "idle"

\* an attempt starts in slot a in this step
Starts(a) == att[a].pc = "idle" /\ att'[a].pc \in InFlightPcs

IsPrefix(s, t) == Len(s) <= Len(t) /\ SubSeq(t, 1, Len(s)) = s

\* the status values of an attempt in which nothing fails
successStatuses(audio) ==
  <<"Preparing workspace", "Rendering frames">>
    \o (IF audio # Null THEN <<"Transcoding audio">> ELSE <<>>)
    \o <<"Encoding video", "Finalizing", "Done">>

\* C1: in an attempt in which no awaited call fails, the status values written
\* are exactly 'Preparing workspace', 'Rendering frames', 'Transcoding audio'
\* (if and only if an audio file is selected), 'Encoding video', 'Finalizing',
\* 'Done', in that order: while the attempt runs the statuses written so far
\* are a proper prefix of that sequence and the status shown is the last one
\* written; the step that ends it with 'Done' completes the sequence; 'Failed'
\* is written only by a step in which the awaited call rejects.
C1_StatusSequence ==
  /\ [](\A a \in InFlight :
          /\ att[a].statusLog # <<>>
          /\ status = att[a].statusLog[Len(att[a].statusLog)]
          /\ IsPrefix(att[a].statusLog, successStatuses(att[a].audioFile))
          /\ Len(att[a].statusLog) < Len(successStatuses(att[a].audioFile)))
  /\ [][\A a \in Slots :
          /\ (Ends(a) /\ last'.ev # "rejected") =>
               /\ status' = "Done"
               /\ Append(att[a].statusLog, status') = successStatuses(att[a].audioFile)
          /\ (status' = "Failed" /\ status # "Failed") => last'.ev = "rejected"]_vars

audioStaged == Val(audioInputNameOf(Some(<<"s", "o", "n", "g", ".", "W", "A", "V">>)))

\* C1 witness: an attempt with an audio file selected has gone through all six
\* statuses and is 'Done'
C1_Witness ==
  /\ status = "Done"
  /\ ~isGenerating
  /\ audioStaged \in fs
  /\ outputFileName \in fs

\* C2: within an attempt progress is cleared at the start, every value written
\* afterwards is an integer in 0..100 not below the previous one, the value
\* after frame i is stored is round((i+1)/totalFrames*50) (within 0..50, and 50
\* after the last frame), it is 90 once exec has returned and 100 when the
\* status becomes 'Done'.
C2_Progress ==
  /\ [](progress # Null => Val(progress) \in 0..100)
  /\ [][/\ (\E a \in Slots : Starts(a)) => progress' = Null
        /\ (isGenerating /\ progress # Null) =>
             (progress' # Null /\ Val(progress') >= Val(progress))
        /\ \A a \in Slots :
             /\ (att[a].pc = "write" /\ att'[a].pc = "frames") =>
                  LET n == att[a].totalFrames
                      k == att[a].i + 1
                      p == Val(progress')
                  IN /\ progress' # Null
                     /\ p \in 0..50
                     \* p is the integer nearest to 50k/n, halves rounded up
                     /\ 2 * n * p <= 100 * k + n
                     /\ 100 * k + n < 2 * n * (p + 1)
                     /\ k = n => p = 50
             /\ (att[a].pc = "exec" /\ att'[a].pc = "read") => progress' = Some(90)
        /\ (status' = "Done" /\ status # "Done") => progress' = Some(100)]_vars

\* C2 witness: the first of three frames is stored and progress is 17, the
\* rounding of 16.67
C2_Witness ==
  \E a \in InFlight :
    /\ att[a].totalFrames = 3
    /\ att[a].i = 1
    /\ att[a].pc = "frames"
    /\ progress = Some(17)

\* C3: at most one attempt is in flight, isGenerating is true exactly while one
\* is, and while it is true no step starts another: a submit is not accepted
\* and the set of running attempts does not grow.
C3_SingleAttempt ==
  /\ [](Cardinality(InFlight) <= 1 /\ (isGenerating <=> InFlight # {}))
  /\ [][isGenerating =>
          /\ \A a \in Slots : ~Starts(a)
          /\ InFlight' \subseteq InFlight
          /\ last'.ev = "submitIgnored" =>
               UNCHANGED <<att, fs, status, progress, error, previewUrl, retryCount>>]_vars

\* C3 witness: a submit was attempted while an attempt is in flight
C3_Witness ==
  /\ isGenerating
  /\ last.ev = "submitIgnored"
  /\ Cardinality(InFlight) = 1

\* C4 (as claimed): at most one created object URL is unreleased, and every
\* URL that is not the current previewUrl has been revoked exactly once.
C4_HandlesReleased ==
  /\ Cardinality(Live) <= 1
  /\ \A u \in 1..urlsCreated : previewUrl # Some(u) => revokes[u] = 1

\* C5 (as claimed): when a render publishes a URL while the URL of the
\* previous successful render is still the preview (no reset in between), the
\* previous URL is revoked in that step and afterwards the new URL is the only
\* one that is live.
C5_SuccessiveRenders ==
  [][(previewUrl # Null /\ previewUrl' # Null /\ previewUrl' # previewUrl) =>
       /\ revokes'[Val(previewUrl)] = 1
       /\ Live' = {Val(previewUrl')}]_vars

\* the fields reset writes
resetFields == <<config, audioFile, previewUrl, status, progress, error, retryCount>>

\* C6: while isGenerating is true no reset runs: a click on the reset button
\* changes none of config, audio selection, preview URL, status, progress,
\* error and attempt counter, no step puts the status back to 'Idle', and so
\* status 'Idle' is never shown while an attempt is in flight.
C6_ResetRejected ==
  /\ [](status = "Idle" => InFlight = {})
  /\ [][isGenerating =>
          /\ status' # "Idle"
          /\ last' # last => last'.ev # "reset"
          /\ (last' # last /\ last'.ev = "resetIgnored") =>
               UNCHANGED <<resetFields, isGenerating, att, fs>>]_vars

\* C6 witness: the reset button was clicked while an attempt is in flight and
\* the attempt has moved past 'Preparing workspace' since
C6_Witness ==
  /\ isGenerating
  /\ last.ev = "resetIgnored"
  /\ status = "Encoding video"
  /\ config # defaultConfig

\* C7: an attempt ends either in 'Done' with the attempt counter as it was, or,
\* when an awaited call rejects, in 'Failed' with error set to the message of
\* the thrown Error (the fixed text when the value thrown is not an Error) and
\* the attempt counter one above its value at the start of the attempt.
C7_Failure ==
  /\ [](\A a \in InFlight : retryCount = att[a].retry0)
  /\ [][\A a \in Slots : Ends(a) =>
          IF last'.ev = "rejected"
            THEN /\ att[a].pc \in ThrowingPcs
                 /\ last'.at = att[a].pc
                 /\ status' = "Failed"
                 /\ error' = Some(IF Val(last'.thrown).isError
                                    THEN Val(last'.thrown).message
                                    ELSE "Unknown error while rendering video.")
                 /\ retryCount' = att[a].retry0 + 1
            ELSE /\ status' = "Done"
                 /\ error' = Null
                 /\ retryCount' = att[a].retry0]_vars

\* C7 witness: readFile rejected with a value that is not an Error, in a second
\* failed attempt
C7_Witness ==
  /\ status = "Failed"
  /\ last.ev = "rejected"
  /\ last.at = "read"
  /\ ~Val(last.thrown).isError
  /\ error = Some(unknownMessage)
  /\ retryCount = 2

\* C8: isGenerating, once true, becomes false again (every awaited call
\* resolving or rejecting), and whenever it is false with status 'Done' or
\* 'Failed' the submit button is enabled and a submit starts an attempt.
C8_FlagCleared ==
  /\ isGenerating ~> ~isGenerating
  /\ []((~isGenerating /\ status \in {"Done", "Failed"}) =>
          (~submitDisabled /\ ready /\ ~loading /\ ffmpeg))

\* C8 witness: a new attempt has been started after a failed one
C8_Witness ==
  /\ isGenerating
  /\ last.ev = "submit"
  /\ retryCount = 1
  /\ status = "Preparing workspace"

\* C9: previewUrl changes to a new URL only in the step in which readFile of
\* the output resolves and the attempt ends 'Done'; every URL created is
\* published in the step that creates it; while an attempt runs previewUrl is
\* what it was at its start, and an attempt that ends 'Failed' creates no URL
\* and leaves previewUrl at that value.
C9_PublishOnlyOnSuccess ==
  /\ [](\A a \in InFlight : previewUrl = att[a].url0)
  /\ [][/\ (previewUrl' # previewUrl /\ previewUrl' # Null) =>
             \E a \in Slots : /\ att[a].pc = "read"
                              /\ Ends(a)
                              /\ last'.ev # "rejected"
                              /\ status' = "Done"
                              /\ outputFileName \in fs
        /\ urlsCreated' # urlsCreated =>
             (urlsCreated' = urlsCreated + 1 /\ previewUrl' = Some(urlsCreated'))
        /\ \A a \in Slots : (Ends(a) /\ status' = "Failed") =>
             (previewUrl' = att[a].url0 /\ urlsCreated' = urlsCreated)]_vars

\* C9 witness: after one successful render a second attempt failed at readFile
\* and the first URL is still the preview
C9_Witness ==
  /\ status = "Failed"
  /\ last.ev = "rejected"
  /\ last.at = "read"
  /\ previewUrl = Some(1)
  /\ urlsCreated = 1
  /\ Live = {1}

RECURSIVE deleteCalls(_, _)
\* the deleteFile calls for frames i..n-1
deleteCalls(i, n) ==
  IF i >= n THEN <<>>
  ELSE << <<"deleteFile", frameFileName(i)>> >> \o deleteCalls(i + 1, n)

RECURSIVE frameCalls(_, _)
\* frame i produced, then written, for i..n-1
frameCalls(i, n) ==
  IF i >= n THEN <<>>
  ELSE << <<"frame", frameFileName(i)>>, <<"writeFile", frameFileName(i)>> >>
         \o frameCalls(i + 1, n)

\* the calls of an attempt up to the return of exec, in the order claimed
orderedCalls(r) ==
  << <<"deleteFile", outputFileName>> >>
    \o deleteCalls(0, r.totalFrames)
    \o (IF r.audioFile # Null
          THEN << <<"deleteFile", Val(r.audioInputName)>> >> ELSE <<>>)
    \o frameCalls(0, r.totalFrames)
    \o (IF r.audioFile # Null
          THEN << <<"writeFile", Val(r.audioInputName)>> >> ELSE <<>>)
    \o << <<"exec", outputFileName>> >>

\* C10: the calls an attempt has completed are always an initial part of: the
\* cleanup deleteFile calls, then for each index 0..totalFrames-1 in increasing
\* order the frame produced and its writeFile, then the audio writeFile if
\* audio is selected, then exec; exec is awaited only when all the calls before
\* it are complete, and readFile only when exec has returned.
C10_CallOrder ==
  \A a \in InFlight :
    LET r == att[a] IN
      /\ IsPrefix(r.calls, orderedCalls(r))
      /\ r.pc = "exec" => Len(r.calls) = Len(orderedCalls(r)) - 1
      /\ r.pc = "read" => r.calls = orderedCalls(r)
      /\ r.pc = "write" => r.calls[Len(r.calls)] = <<"frame", frameFileName(r.i)>>

\* C10 witness: with three frames and audio, readFile is awaited after all
\* thirteen calls before it
C10_Witness ==
  \E a \in InFlight :
    /\ att[a].pc = "read"
    /\ att[a].totalFrames = 3
    /\ att[a].audioFile # Null
    /\ Len(att[a].calls) = 13

\* C11 (as claimed): a submit made while the encoder is not ready sets error
\* and leaves status, progress, isGenerating, preview URL, attempt counter,
\* running attempts and the encoder's files as they are.
C11_NotReadyError ==
  [][(~ready /\ last' # last /\ last'.ev \in {"submit", "submitIgnored"}) =>
       /\ error' # Null
       /\ UNCHANGED <<status, progress, isGenerating, previewUrl, retryCount, att, fs>>]_vars

\* a step that is a run of reset(): a reset click, told from an edit of the
\* form made after an earlier reset
ResetStep ==
  /\ last'.ev = "reset"
  /\ last.ev # "reset" \/ (config # defaultConfig /\ config' = defaultConfig)

\* C12: a reset (possible only while no render is in progress) leaves config
\* equal to defaultConfig, no audio file, no preview URL, status 'Idle',
\* progress and error null and the attempt counter 0, whatever the state
\* before; these stay so until the next submit, edits of the form aside.
C12_ResetDefaults ==
  /\ [](last.ev = "reset" =>
          /\ previewUrl = Null
          /\ status = "Idle"
          /\ progress = Null
          /\ error = Null
          /\ retryCount = 0
          /\ ~isGenerating)
  /\ [][ResetStep =>
          /\ ~isGenerating
          /\ config' = defaultConfig
          /\ audioFile' = Null
          /\ previewUrl' = Null
          /\ status' = "Idle"
          /\ progress' = Null
          /\ error' = Null
          /\ retryCount' = 0]_vars

\* C12 witness: a reset after a successful and a failed attempt
C12_Witness ==
  /\ last.ev = "reset"
  /\ urlsCreated = 1
  /\ config = defaultConfig
  /\ audioFile = Null
  /\ audioStaged \in fs
  /\ outputFileName \notin fs

CleanupPcs == {"del_output", "del_frame", "del_audio"}

\* C13: whether a cleanup deleteFile rejects (the file is absent) or not, the
\* attempt goes on to the next cleanup call or to 'Rendering frames': during
\* cleanup the status is 'Preparing workspace' and error is null, and the step
\* in which a deleteFile settles neither ends the attempt nor sets error,
\* status 'Failed' or the attempt counter.
C13_CleanupSwallowed ==
  /\ [](\A a \in InFlight : att[a].pc \in CleanupPcs =>
          (status = "Preparing workspace" /\ error = Null))
  /\ [][\A a \in Slots : (att[a].pc \in CleanupPcs /\ att'[a] # att[a]) =>
          /\ att'[a].pc \in CleanupPcs \cup {"frames"}
          /\ att'[a].pc = "frames" => status' = "Rendering frames"
          /\ Len(att'[a].calls) = Len(att[a].calls) + 1
          /\ error' = Null
          /\ status' # "Failed"
          /\ retryCount' = retryCount]_vars

\* C13 witness: in a first attempt with three frames and audio all five
\* deleteFile calls rejected (no file existed) and the frames are being rendered
C13_Witness ==
  \E a \in InFlight :
    /\ att[a].pc = "frames"
    /\ att[a].i = 0
    /\ att[a].totalFrames = 3
    /\ att[a].audioFile # Null
    /\ Len(att[a].calls) = 5
    /\ fs = {}
    /\ status = "Rendering frames"
    /\ error = Null

\* a name of the form frame_<digits>.png
IsFrameName(n) ==
  /\ Len(n) > Len(framePrefix) + Len(pngSuffix)
  /\ SubSeq(n, 1, Len(framePrefix)) = framePrefix
  /\ SubSeq(n, Len(n) - Len(pngSuffix) + 1, Len(n)) = pngSuffix

FrameFiles(S) == {n \in S : IsFrameName(n)}

CodeOrder == <<".", "0", "1", "2", "3", "4", "5", "6", "7", "8", "9", "_",
               "a", "e", "f", "g", "m", "n", "p", "r">>

Code(c) == CHOOSE k \in 1..Len(CodeOrder) : CodeOrder[k] = c

\* s sorts strictly before t in plain lexicographic order
LexLess(s, t) ==
  \E k \in 1..(Len(t)) :
    /\ k <= Len(s) + 1
    /\ \A m \in 1..(k - 1) : s[m] = t[m]
    /\ k = Len(s) + 1 \/ Code(s[k]) < Code(t[k])

FramesNamed == naming.of = "frames" /\ naming.out # <<>>

\* C15 (as claimed): for all indices i < j the frame names are distinct and
\* the name for i sorts strictly before the name for j, and the name deleted
\* equals the name written.
C15_FrameNames ==
  FramesNamed =>
    /\ naming.out[1].written # naming.out[2].written
    /\ LexLess(naming.out[1].written, naming.out[2].written)
    /\ \A k \in 1..2 : naming.out[k].deleted = naming.out[k].written

\* C15 (amended): for all indices i < j the frame names are distinct and the
\* name deleted for an index equals the name written for it; when j has at
\* most padLength digits (totalFrames <= 100000) both names have the same
\* length, 'frame_' + 5 digits + '.png', and the name for i sorts strictly
\* before the name for j.
C15_FrameNamesPadded ==
  FramesNamed =>
    /\ naming.out[1].written # naming.out[2].written
    /\ \A k \in 1..2 : naming.out[k].deleted = naming.out[k].written
    /\ Len(String(naming.arg[2])) <= padLength =>
         /\ \A k \in 1..2 : Len(naming.out[k].written) = 15
         /\ LexLess(naming.out[1].written, naming.out[2].written)
         /\ ~LexLess(naming.out[2].written, naming.out[1].written)

\* C15 witness: the names of frames 9 and 10, which sort the other way
\* round without the padding
C15_Witness ==
  /\ FramesNamed
  /\ naming.arg = <<9, 10>>
  /\ naming.out[1].written =
       <<"f", "r", "a", "m", "e", "_", "0", "0", "0", "0", "9", ".", "p", "n", "g">>
  /\ naming.out[2].deleted =
       <<"f", "r", "a", "m", "e", "_", "0", "0", "0", "1", "0", ".", "p", "n", "g">>

AudioNamed == naming.of = "audio" /\ naming.out # <<>>

\* C16: with no audio selected there is no audio file name; otherwise it is
\* 'audio_input' followed by the part of the original name from its last '.'
\* to its end, case preserved, or by '.mp3' when the name contains no '.':
\* "song.WAV" gives 'audio_input.WAV', "a.b.ogg" gives 'audio_input.ogg'.
C16_AudioName ==
  AudioNamed =>
    LET name == naming.out[1] IN
      /\ naming.arg = Null <=> name = Null
      /\ naming.arg # Null =>
           LET file == Val(naming.arg)
               ext == SubSeq(Val(name), Len(audioPrefix) + 1, Len(Val(name)))
           IN /\ SubSeq(Val(name), 1, Len(audioPrefix)) = audioPrefix
              /\ IF \A k \in 1..Len(file) : file[k] # "."
                   THEN ext = <<".", "m", "p", "3">>
                   ELSE /\ ext[1] = "."
                        /\ \A k \in 2..Len(ext) : ext[k] # "."
                        /\ Len(ext) <= Len(file)
                        /\ ext = SubSeq(file, Len(file) - Len(ext) + 1, Len(file))
      /\ naming.arg = Some(<<"s", "o", "n", "g", ".", "W", "A", "V">>) =>
           name = Some(<<"a", "u", "d", "i", "o", "_", "i", "n", "p", "u", "t",
                         ".", "W", "A", "V">>)
      /\ naming.arg = Some(<<"a", ".", "b", ".", "o", "g", "g">>) =>
           name = Some(<<"a", "u", "d", "i", "o", "_", "i", "n", "p", "u", "t",
                         ".", "o", "g", "g">>)

\* C16 witness: the name for "a.b.ogg", a file name with two dots
C16_Witness ==
  /\ AudioNamed
  /\ naming.arg = Some(<<"a", ".", "b", ".", "o", "g", "g">>)
  /\ naming.out[1] # Null

\* the argument list claimed for an attempt with frame rate fps and the
\* audio file name staged (Null without audio)
claimedCommand(fps, staged) ==
  <<Lit("-y"), Lit("-framerate"), Chars(String(fps)), Lit("-i"),
    Chars(<<"f", "r", "a", "m", "e", "_", "%", "0", "5", "d", ".", "p", "n", "g">>)>>
    \o (IF staged # Null THEN <<Lit("-i"), Chars(Val(staged)), Lit("-shortest")>>
        ELSE <<>>)
    \o <<Lit("-c:v"), Lit("libx264"), Lit("-profile:v"), Lit("main"),
         Lit("-pix_fmt"), Lit("yuv420p"), Lit("-preset"), Lit("medium")>>
    \o (IF staged # Null THEN <<Lit("-c:a"), Lit("aac"), Lit("-b:a"), Lit("192k")>>
        ELSE <<>>)
    \o <<Chars(<<"o", "u", "t", "p", "u", "t", ".", "m", "p", "4">>)>>

\* the names of the files an attempt has written that are not frames
stagedBy(r) ==
  {r.calls[k][2] : k \in {m \in 1..Len(r.calls) :
                            r.calls[m][1] = "writeFile" /\ ~IsFrameName(r.calls[m][2])}}

\* C17: the command handed to exec is '-y', '-framerate', fps, '-i',
\* 'frame_%05d.png', then '-i', the audio name, '-shortest' exactly when the
\* attempt has an audio file, then the eight video codec arguments, then
\* '-c:a', 'aac', '-b:a', '192k' exactly when it has an audio file, then
\* 'output.mp4'; the audio name in it is the one name the attempt staged.
C17_Command ==
  \A a \in InFlight :
    IF att[a].pc \in {"exec", "read"}
      THEN /\ att[a].fps = 30
           /\ IF att[a].audioFile = Null
                THEN /\ stagedBy(att[a]) = {}
                     /\ att[a].command = claimedCommand(att[a].fps, Null)
                     /\ Len(att[a].command) = 14
                ELSE /\ Cardinality(stagedBy(att[a])) = 1
                     /\ \A n \in stagedBy(att[a]) :
                          /\ att[a].command = claimedCommand(att[a].fps, Some(n))
                          /\ att[a].command[7] = Chars(n)
                          /\ n \in fs
                     /\ Len(att[a].command) = 21
      ELSE att[a].command = <<>>

\* C17 witness: exec is awaited with the command of an attempt that staged
\* "song.WAV", after the audio selection was removed from the form
C17_Witness ==
  \E a \in InFlight :
    /\ att[a].pc = "exec"
    /\ att[a].audioFile # Null
    /\ audioFile = Null
    /\ Len(att[a].command) = 21
    /\ att[a].command[7] = Chars(audioStaged)

\* C18: in every reachable state, status 'Done' comes with error null,
\* progress 100 and a preview URL; status 'Failed' comes with error not null;
\* and while isGenerating is false the status is 'Idle', 'Done' or 'Failed'.
C18_Consistent ==
  /\ status = "Done" => (error = Null /\ progress = Some(100) /\ previewUrl # Null)
  /\ status = "Failed" => error # Null
  /\ ~isGenerating => status \in {"Idle", "Done", "Failed"}

\* C18 witness: a failed attempt after a successful one: 'Failed' with the
\* error message, the flag cleared, the earlier preview URL still shown
C18_Witness ==
  /\ status = "Failed"
  /\ error = Some("encoder error")
  /\ ~isGenerating
  /\ previewUrl # Null
  /\ progress # Some(100)

\* C19 (as claimed): while exec is awaited, the frame files in the encoder's
\* file system are exactly those of indices 0..totalFrames-1 of the attempt.
C19_OnlyCurrentFrames ==
  \A a \in InFlight : att[a].pc = "exec" =>
    FrameFiles(fs) = {frameFileName(i) : i \in 0..(att[a].totalFrames - 1)}

\* C20 (as claimed): a load that has finished, resolved or rejected, has left
\* loading false (and ready true when it resolved), and while loading or
\* ready no other load is started.
C20_LoadSettles ==
  /\ loadPc \in {"loaded", "rejected"} => ~loading
  /\ loadPc = "loaded" => ready
  /\ (ready \/ loading) => ~ENABLED load

====
